---------------------------- MODULE Spec2Model ----------------------------
(***************************************************************************)
(* MiddlewareChain of cppmiddleware.hpp: an append-only registry of        *)
(* handlers (use) and a recursive dispatch (handle / execute) that gives   *)
(* each handler a continuation re-entering execute at index + 1.           *)
(*                                                                         *)
(* The C++ call stack is the variable stack: one frame per running         *)
(* middleware_[index](req, res, next) call, holding the references the     *)
(* next lambda captured.  Request and Response objects live in a heap      *)
(* indexed by object id, so that "the same instance" is a statement about  *)
(* ids.  Handlers are user code; the model registers a fixed family of     *)
(* small handler programs that exercise every way a handler can use its    *)
(* continuation.                                                           *)
(***************************************************************************)
EXTENDS Integers, Sequences, FiniteSets, TLC

\* Largest number of handlers registered on the chain.
MaxChain == 3

\* Response::status default member initialiser.
DefaultStatus == 200

\* Request/Response objects alive in the caller, by object id.  The caller
\* hands pair 1 to handle; pair 2 is a second pair it owns at the same time.
PairIds == {1, 2}

OtherPair(d) == IF d = 1 THEN 2 ELSE 1

EmptyMap == [k \in {} |-> ""]

\* unordered_map::operator[] assignment: insert or overwrite (last write wins).
Put(m, key, val) == [k \in (DOMAIN m) \cup {key} |-> IF k = key THEN val ELSE m[k]]

DefaultRequest == [method |-> "GET", path |-> "/", headers |-> EmptyMap, body |-> ""]

DefaultResponse == [status |-> DefaultStatus, headers |-> EmptyMap, body |-> ""]

\* The Requests a caller builds: with and without the "Auth" header.
RequestInputs ==
    { DefaultRequest,
      [DefaultRequest EXCEPT !.headers = Put(EmptyMap, "Auth", "token")] }

(***************************************************************************)
(* Handler programs.  A handler body is a sequence of operations on        *)
(* (Request&, Response&, Next):                                            *)
(*   setStatus / setHeader / setBody   mutate the Response                 *)
(*   setReqHeader                      mutates the Request                 *)
(*   requireAuth                       returns at once unless the Request  *)
(*                                     carries the header                  *)
(*   next                              invokes the continuation            *)
(*   tryNext                           invokes it inside try { } catch     *)
(*   observe                           records the Response it sees        *)
(*   throw                             raises an exception                 *)
(*   handle                            dispatches a Request of its own,    *)
(*                                     marked with a header, on the chain  *)
(*                                     the handler closes over, unless the *)
(*                                     Request it was given has the mark   *)
(*   use                               registers a handler on the chain    *)
(*                                     the handler closes over             *)
(***************************************************************************)
Op(o, k, v, n) == [op |-> o, key |-> k, val |-> v, num |-> n]

OpNext == Op("next", "", "", 0)

Handlers ==
    {"setHeader", "setStatus", "authCheck", "login", "logger", "twice", "thrower", "catcher"}

\* Any other name stands for what lies past the end of the vector: execute
\* tests the index first, so such a body is never run.
Body(fn) ==
    CASE fn = "setHeader" -> << Op("setHeader", "X", "1", 0), OpNext >>
      [] fn = "setStatus" -> << Op("setStatus", "", "", 404), OpNext >>
      [] fn = "authCheck" -> << Op("requireAuth", "Auth", "", 0), OpNext >>
      [] fn = "login"     -> << Op("setReqHeader", "Auth", "token", 0), OpNext >>
      [] fn = "logger"    -> << OpNext, Op("observe", "", "", 0) >>
      [] fn = "twice"     -> << OpNext, OpNext >>
      [] fn = "thrower"   -> << Op("setBody", "", "partial", 0), Op("throw", "", "", 0) >>
      [] fn = "catcher"   -> << Op("tryNext", "", "", 0), Op("observe", "", "", 0) >>
      [] fn = "registrar" -> << Op("use", "setStatus", "", 0), OpNext >>
      [] fn = "redispatch" -> << Op("handle", "Inner", "1", 0), OpNext >>
      [] OTHER            -> << Op("throw", "", "", 0) >>

VARIABLES
    middleware_,   \* MiddlewareChain::middleware_: the registered handlers
    stack,         \* the call stack: running handler invocations, outermost first
    requests,      \* heap of Request objects, by object id
    responses,     \* heap of Response objects, by object id
    outcome,       \* per pair: "none", "running", "returned" or "faulted"
    log,           \* per pair: what the handlers of its dispatch observed
    chainAt,       \* per pair: middleware_ when its handle call started
    reqAt,         \* per pair: the Request as the caller built it
    uses,          \* the arguments of the use calls so far, in call order
    prev           \* what the caller kept of the dispatch before this one

vars ==
    << middleware_, stack, requests, responses, outcome, log, chainAt, reqAt, uses, prev >>

NoPrev ==
    [outcome |-> "none", reqAt |-> DefaultRequest, log |-> << >>,
     req |-> DefaultRequest, res |-> DefaultResponse]

Top == stack[Len(stack)]

Running == stack # << >>

CurOp == Body(Top.fn)[Top.pc]

AtOp(ops) == Running /\ Top.pc <= Len(Body(Top.fn)) /\ CurOp.op \in ops

\* What the invocation f observes: the objects behind its own references, and
\* the cursor its execute call was given.
Event(e, f) ==
    [ev |-> e, index |-> f.index, fn |-> f.fn, cursor |-> f.index,
     req |-> requests[f.req], res |-> responses[f.res]]

\* A continuation call of f: the cursor is the one the lambda gives execute.
CallEvent(e, f, c) == [Event(e, f) EXCEPT !.cursor = c]

\* vector::push_back
PushBackFront(seq, f) == << f >> \o seq

PushBackUnique(seq, f) == IF \E i \in DOMAIN seq : seq[i] = f THEN seq ELSE Append(seq, f)

PushBack(seq, f) == Append(seq, f)

\* handle: execute(0, req, res)
StartIndexLeaky == IF outcome[1] = "none" THEN 0 ELSE Len(middleware_)

StartIndexResume == Len(stack)

StartIndex == 0

\* execute: if (index >= middleware_.size()) return;
AtEndEarly(index) == index + 1 >= Len(middleware_)

AtEndLate(index) == index > Len(middleware_)

AtEndFrozen(index) ==
    index >= (IF stack # << >> THEN Len(chainAt[stack[Len(stack)].d]) ELSE Len(middleware_))

AtEnd(index) == index >= Len(middleware_)

\* next lambda: execute(index + 1, req, res)
NextIndexSkip(index) == index + 2

NextIndexSame(index) == index

NextIndexBack(index) == IF index > 0 THEN index - 1 ELSE index + 1

NextIndex(index) == index + 1

\* next lambda captures &req and &res: the continuation passes on the very
\* references its own execute call received.
BindReqOther(f) == OtherPair(f.req)

BindReq(f) == f.req

BindResOther(f) == OtherPair(f.res)

BindRes(f) == f.res

\* middleware_[index]: vector::operator[] (0-based; the sequence is 1-based).
At(v, index) == IF index < Len(v) THEN v[index + 1] ELSE "past-the-end"

\* middleware_[index](req, res, next): a new handler invocation.  It runs the
\* std::function object stored in the vector, in place: stale tells that the
\* vector has moved its elements to a new buffer since.
Frame(d, index, rq, rs) ==
    [d |-> d, index |-> index, fn |-> At(middleware_, index), pc |-> 1,
     req |-> rq, res |-> rs, try |-> FALSE, stale |-> FALSE]

\* execute(index, req, res) on call stack s: return at once at the end of the
\* chain, otherwise invoke the handler at index.
Execute(s, d, index, rq, rs) ==
    IF AtEnd(index) THEN s ELSE Append(s, Frame(d, index, rq, rs))

\* The events of call stack t that s does not have yet: the invocation started.
Started(s, t) ==
    IF Len(t) > Len(s) THEN << Event("start", t[Len(t)]) >> ELSE << >>

Init ==
    /\ middleware_ = << >>
    /\ stack = << >>
    /\ requests = [d \in PairIds |-> DefaultRequest]
    /\ responses = [d \in PairIds |-> DefaultResponse]
    /\ outcome = [d \in PairIds |-> "none"]
    /\ log = [d \in PairIds |-> << >>]
    /\ chainAt = [d \in PairIds |-> << >>]
    /\ reqAt = [d \in PairIds |-> DefaultRequest]
    /\ uses = << >>
    /\ prev = NoPrev

\* use(func), called by the owner of the chain between dispatches.
Use(f) ==
    /\ ~Running
    /\ Len(middleware_) < MaxChain
    /\ middleware_' = PushBack(middleware_, f)
    /\ uses' = Append(uses, f)
    /\ prev' = NoPrev
    /\ UNCHANGED << stack, requests, responses, outcome, log, chainAt, reqAt >>

\* The caller builds Request r and a default Response in pair 1 and calls
\* handle(req, res).  When it repeats the Request of the dispatch before, on
\* the chain that one ran on, it keeps what that dispatch left.
Handle(r) ==
    /\ ~Running
    /\ prev' = IF outcome[1] # "none" /\ chainAt[1] = middleware_ /\ reqAt[1] = r
               THEN [outcome |-> outcome[1], reqAt |-> reqAt[1], log |-> log[1],
                     req |-> requests[1], res |-> responses[1]]
               ELSE NoPrev
    /\ requests' = [requests EXCEPT ![1] = r]
    /\ responses' = [responses EXCEPT ![1] = DefaultResponse]
    /\ reqAt' = [reqAt EXCEPT ![1] = r]
    /\ chainAt' = [chainAt EXCEPT ![1] = middleware_]
    /\ stack' = Execute(stack, 1, StartIndex, 1, 1)
    /\ log' = [log EXCEPT ![1] =
                 IF stack' = << >> THEN << >>
                 ELSE << [ev |-> "start", index |-> stack'[1].index, fn |-> stack'[1].fn,
                          cursor |-> StartIndex, req |-> r, res |-> DefaultResponse] >>]
    /\ outcome' = [outcome EXCEPT ![1] = IF stack' = << >> THEN "returned" ELSE "running"]
    /\ UNCHANGED << middleware_, uses >>

Advance(s) == [s EXCEPT ![Len(s)].pc = @ + 1]

\* A handler statement that writes the Response it was given.
MutateResponse ==
    /\ AtOp({"setStatus", "setHeader", "setBody"})
    /\ responses' = [responses EXCEPT ![Top.res] =
          CASE CurOp.op = "setStatus" -> [@ EXCEPT !.status = CurOp.num]
            [] CurOp.op = "setHeader" -> [@ EXCEPT !.headers = Put(@, CurOp.key, CurOp.val)]
            [] CurOp.op = "setBody"   -> [@ EXCEPT !.body = CurOp.val]]
    /\ stack' = Advance(stack)
    /\ UNCHANGED << middleware_, requests, outcome, log, chainAt, reqAt, uses, prev >>

\* A handler statement that writes the Request it was given.
MutateRequest ==
    /\ AtOp({"setReqHeader"})
    /\ requests' = [requests EXCEPT ![Top.req].headers = Put(@, CurOp.key, CurOp.val)]
    /\ stack' = Advance(stack)
    /\ UNCHANGED << middleware_, responses, outcome, log, chainAt, reqAt, uses, prev >>

\* if (!req.headers.count(key)) return;
RequireAuth ==
    /\ AtOp({"requireAuth"})
    /\ stack' = [stack EXCEPT ![Len(stack)].pc =
                   IF CurOp.key \in DOMAIN requests[Top.req].headers
                   THEN @ + 1 ELSE Len(Body(Top.fn)) + 1]
    /\ UNCHANGED << middleware_, requests, responses, outcome, log, chainAt, reqAt, uses, prev >>

\* The handler appends the Response as it sees it to the observation log.
Observe ==
    /\ AtOp({"observe"})
    /\ log' = [log EXCEPT ![Top.d] = Append(@, Event("saw", Top))]
    /\ stack' = Advance(stack)
    /\ UNCHANGED << middleware_, requests, responses, outcome, chainAt, reqAt, uses, prev >>

\* next(): the lambda runs execute(index + 1, req, res) with its captures; the
\* caller resumes behind the call once it returns.
CallNext ==
    /\ AtOp({"next", "tryNext"})
    /\ LET f == Top
           s == Advance(stack)
           t == Execute(s, f.d, NextIndex(f.index), BindReq(f), BindRes(f))
       IN /\ stack' = IF Len(t) > Len(s) /\ CurOp.op = "tryNext"
                      THEN [t EXCEPT ![Len(s)].try = TRUE] ELSE t
          /\ log' = [log EXCEPT ![f.d] =
                       Append(@, CallEvent(CurOp.op, f, NextIndex(f.index))) \o Started(s, t)]
    /\ UNCHANGED << middleware_, requests, responses, outcome, chainAt, reqAt, uses, prev >>

\* The handler body ends: the invocation returns to the continuation call that
\* made it, or out of handle.
ReturnFallThrough ==
    /\ Running
    /\ Top.pc > Len(Body(Top.fn))
    /\ LET s == SubSeq(stack, 1, Len(stack) - 1)
           t == Execute(s, Top.d, NextIndex(Top.index), BindReq(Top), BindRes(Top))
       IN /\ stack' = t
          /\ outcome' = IF t = << >> THEN [outcome EXCEPT ![Top.d] = "returned"] ELSE outcome
          /\ log' = [log EXCEPT ![Top.d] = Append(@, Event("end", Top)) \o Started(s, t)]
    /\ UNCHANGED << middleware_, requests, responses, chainAt, reqAt, uses, prev >>

\* s is what is left of the call stack when an invocation of dispatch d is
\* gone: was it the one handle called?
LeavesHandle(s, d) == s = << >> \/ s[Len(s)].d # d

Return ==
    /\ Running
    /\ Top.pc > Len(Body(Top.fn))
    /\ LET s == SubSeq(stack, 1, Len(stack) - 1) IN
          /\ stack' = IF s = << >> THEN s ELSE [s EXCEPT ![Len(s)].try = FALSE]
          /\ outcome' = IF LeavesHandle(s, Top.d)
                        THEN [outcome EXCEPT ![Top.d] = "returned"] ELSE outcome
    /\ log' = [log EXCEPT ![Top.d] = Append(@, Event("end", Top))]
    /\ UNCHANGED << middleware_, requests, responses, chainAt, reqAt, uses, prev >>

\* The invocation an exception raised at the top of s arrives in: the innermost
\* one with an open try block, 0 if there is none.  execute, the next lambda
\* and handle have no try block of their own.
CatcherSwallow(s) == Len(s) - 1

Catcher(s) ==
    LET c == {k \in 1..Len(s) : s[k].try} IN
    IF c = {} THEN 0 ELSE CHOOSE k \in c : \A j \in c : j <= k

\* throw: the exception leaves every invocation above the catching one,
\* innermost first, and leaves each handle call none of whose invocations
\* catches it.
Throw ==
    /\ AtOp({"throw"})
    /\ LET k == Catcher(stack)
           n == Len(stack)
           left == {stack[j].d : j \in (k + 1)..n} \ {stack[j].d : j \in 1..k}
           aborted(d) ==
               LET js == SelectSeq([j \in 1..(n - k) |-> n - j + 1],
                                   LAMBDA i : stack[i].d = d)
               IN [j \in DOMAIN js |-> Event("abort", stack[js[j]])]
       IN /\ stack' = IF k = 0 THEN << >>
                      ELSE [SubSeq(stack, 1, k) EXCEPT ![k].try = FALSE]
          /\ outcome' = [d \in PairIds |-> IF d \in left THEN "faulted" ELSE outcome[d]]
          /\ log' = [d \in PairIds |->
                       log[d] \o (IF d = Top.d THEN << Event("throw", Top) >> ELSE << >>)
                              \o aborted(d)]
    /\ UNCHANGED << middleware_, requests, responses, chainAt, reqAt, uses, prev >>

Step ==
    \/ MutateResponse
    \/ MutateRequest
    \/ RequireAuth
    \/ Observe
    \/ CallNext
    \/ Return
    \/ Throw

Next ==
    \/ \E f \in Handlers : Use(f)
    \/ \E r \in RequestInputs : Handle(r)
    \/ Step

Spec == Init /\ [][Next]_vars

\* The call stack always runs: a started dispatch is never left suspended.
FairSpec == Spec /\ WF_vars(Step)

(***************************************************************************)
(* Registration interleaved with a dispatch.  use is public and the chain  *)
(* does not know whether a dispatch is in flight, so a handler that closes *)
(* over the chain can call it.                                             *)
(***************************************************************************)
HandlersInterleaved == Handlers \cup {"registrar"}

\* A running handler calls use(func).  push_back reallocates when the vector
\* is at capacity, and the growth policy is the library's (realloc); the
\* std::function objects of the open invocations then lie in the freed buffer.
UseInFlight(realloc) ==
    /\ AtOp({"use"})
    /\ Len(middleware_) < MaxChain
    /\ middleware_' = PushBack(middleware_, CurOp.key)
    /\ uses' = Append(uses, CurOp.key)
    /\ prev' = NoPrev
    /\ log' = [log EXCEPT ![Top.d] = Append(@, Event("use", Top))]
    /\ stack' = Advance(IF realloc
                        THEN [k \in DOMAIN stack |-> [stack[k] EXCEPT !.stale = TRUE]]
                        ELSE stack)
    /\ UNCHANGED << requests, responses, outcome, chainAt, reqAt >>

\* An invocation running a destroyed std::function object has undefined
\* behaviour: it goes on as if nothing had happened (Step), or the process
\* dies here.
Crash ==
    /\ Running
    /\ Top.stale
    /\ stack' = << >>
    /\ outcome' = [outcome EXCEPT ![Top.d] = "crashed"]
    /\ UNCHANGED << middleware_, requests, responses, log, chainAt, reqAt, uses, prev >>

NextInterleaved ==
    \/ \E f \in HandlersInterleaved : Use(f)
    \/ \E r \in RequestInputs : Handle(r)
    \/ Step
    \/ \E realloc \in BOOLEAN : UseInFlight(realloc)
    \/ Crash

SpecInterleaved == Init /\ [][NextInterleaved]_vars

(***************************************************************************)
(* Dispatch from inside a handler.  handle is public, so a handler that    *)
(* closes over the chain can dispatch a Request and Response of its own.   *)
(***************************************************************************)
HandlersReentrant == Handlers \cup {"redispatch"}

\* The Request a redispatching handler builds.
InnerRequest(key, val) == [DefaultRequest EXCEPT !.headers = Put(@, key, val)]

\* A running handler builds a Request and a default Response of its own in the
\* other pair and calls handle(req, res); it resumes behind the call once that
\* returns.  It does not when the Request it was given is itself such a one.
HandleInFlight ==
    /\ AtOp({"handle"})
    /\ LET f == Top
           d == OtherPair(f.d)
           s == Advance(stack)
           r == InnerRequest(CurOp.key, CurOp.val)
       IN IF CurOp.key \in DOMAIN requests[f.req].headers
          THEN /\ stack' = s
               /\ UNCHANGED << requests, responses, outcome, log, chainAt, reqAt >>
          ELSE /\ requests' = [requests EXCEPT ![d] = r]
               /\ responses' = [responses EXCEPT ![d] = DefaultResponse]
               /\ reqAt' = [reqAt EXCEPT ![d] = r]
               /\ chainAt' = [chainAt EXCEPT ![d] = middleware_]
               /\ stack' = Execute(s, d, StartIndex, d, d)
               /\ log' = [log EXCEPT
                            ![f.d] = Append(@, Event("handle", f)),
                            ![d] = IF Len(stack') = Len(s) THEN << >>
                                   ELSE << [ev |-> "start", index |-> stack'[Len(stack')].index,
                                            fn |-> stack'[Len(stack')].fn, cursor |-> StartIndex,
                                            req |-> r, res |-> DefaultResponse] >>]
               /\ outcome' = [outcome EXCEPT ![d] =
                                IF Len(stack') = Len(s) THEN "returned" ELSE "running"]
    /\ UNCHANGED << middleware_, uses, prev >>

NextReentrant ==
    \/ \E f \in HandlersReentrant : Use(f)
    \/ \E r \in RequestInputs : Handle(r)
    \/ Step
    \/ HandleInFlight

SpecReentrant == Init /\ [][NextReentrant]_vars

(***************************************************************************)
(* Reading the observation log of the dispatch on pair 1.                  *)
(***************************************************************************)
L == log[1]

Chain == chainAt[1]

N == Len(chainAt[1])

Calls == {"next", "tryNext"}

Positions(evs, index) == {p \in DOMAIN L : L[p].ev \in evs /\ L[p].index = index}

Starts == SelectSeq(L, LAMBDA e : e.ev = "start")

\* The continuation calls written in the body of handler fn.
NextCalls(fn) == Cardinality({p \in DOMAIN Body(fn) : Body(fn)[p].op \in Calls})

\* fn runs to its end whatever the Request holds.
Unconditional(fn) == \A p \in DOMAIN Body(fn) : Body(fn)[p].op \notin {"requireAuth", "throw"}

ContinuesOnce(fn) == NextCalls(fn) = 1 /\ Unconditional(fn)

Catches(fn) == \E p \in DOMAIN Body(fn) : Body(fn)[p].op = "tryNext"

Over == outcome[1] \in {"returned", "faulted"}

----------------------------------------------------------------------------
\* C1: on a chain of N handlers that each invoke their continuation exactly
\* once, the handler starts of one handle call are, at every moment, the
\* handlers 0, 1, 2, ... in registration order, and all N of them once handle
\* has returned.
C1_RegistrationOrder ==
    (\A i \in DOMAIN Chain : ContinuesOnce(Chain[i])) =>
        /\ \A i \in DOMAIN Starts : Starts[i].index = i - 1 /\ Starts[i].fn = Chain[i]
        /\ Len(Starts) <= N
        /\ outcome[1] = "returned" => Len(Starts) = N
        /\ outcome[1] # "faulted"

\* The scenario [setHeader("X","1"), setStatus(404), appendLog] has returned.
C1_Witness ==
    /\ Chain = << "setHeader", "setStatus", "logger" >>
    /\ outcome[1] = "returned"
    /\ [i \in DOMAIN Starts |-> Starts[i].fn] = << "setHeader", "setStatus", "logger" >>
    /\ responses[1].status = 404
    /\ responses[1].headers = Put(EmptyMap, "X", "1")

----------------------------------------------------------------------------
NoNext(k) == Positions(Calls, k) = {}

\* C2: as long as handler k has not invoked its continuation, no handler after
\* k has been invoked; if the handlers before k have invoked theirs, handlers
\* 0..k have all been invoked; and when no setStatus handler stands at 0..k the
\* Response status is still the default.
C2_ShortCircuit ==
    \A k \in 0..(N - 1) :
        NoNext(k) =>
            /\ \A p \in DOMAIN L : L[p].index <= k
            /\ (L # << >> /\ \A j \in 0..(k - 1) : ~NoNext(j)) =>
                   \A i \in 0..k : Positions({"start"}, i) # {}
            /\ (outcome[1] # "none" /\ \A j \in 0..k : Chain[j + 1] # "setStatus") =>
                   responses[1].status = DefaultStatus

\* [authCheck, setStatus] on a Request without "Auth": authCheck has returned
\* without invoking its continuation.
C2_Witness ==
    /\ Chain = << "authCheck", "setStatus" >>
    /\ "Auth" \notin DOMAIN reqAt[1].headers
    /\ outcome[1] = "returned"
    /\ Positions({"start"}, 0) # {}
    /\ Positions({"start"}, 1) = {}
    /\ responses[1].status = DefaultStatus

----------------------------------------------------------------------------
Bad == << -1 >>

\* The invocations open after the first n events of the log: a start opens one,
\* an end (or an abort by an exception) closes the innermost one, and any
\* other event is made by the innermost one.  Bad if an event does not fit.
RECURSIVE Open(_)
Open(n) ==
    IF n = 0 THEN << >>
    ELSE LET o == Open(n - 1)
             e == L[n]
         IN IF o = Bad THEN Bad
            ELSE IF e.ev = "start" THEN Append(o, e.index)
            ELSE IF o = << >> \/ o[Len(o)] # e.index THEN Bad
            ELSE IF e.ev \in {"end", "abort"} THEN SubSeq(o, 1, Len(o) - 1)
            ELSE o

\* C3: the continuation call is synchronous: while the handlers it started are
\* open, the calling handler makes no step, they finish in the reverse of the
\* order they started in, and what a handler observes after its continuation
\* returned is the Response as the last downstream step left it.
C3_WrapSemantics ==
    /\ Open(Len(L)) = [k \in DOMAIN stack |-> stack[k].index]
    /\ \A p \in 2..Len(L) : L[p].ev = "saw" => L[p].res = L[p - 1].res

\* logger, registered before setStatus, observes status 404 behind its
\* continuation call.
C3_Witness ==
    /\ Chain = << "logger", "setHeader", "setStatus" >>
    /\ outcome[1] = "returned"
    /\ \E p \in Positions({"saw"}, 0) :
          /\ L[p].res.status = 404
          /\ L[p].res.headers = Put(EmptyMap, "X", "1")
          /\ L[p - 1].ev = "end" /\ L[p - 1].index = 1

----------------------------------------------------------------------------
\* C4: handle on a chain without handlers invokes nothing, returns, and leaves
\* the Response and the Request as the caller built them.
C4_EmptyChain ==
    (Chain = << >> /\ outcome[1] # "none") =>
        /\ outcome[1] = "returned"
        /\ stack = << >>
        /\ L = << >>
        /\ responses[1] = DefaultResponse
        /\ requests[1] = reqAt[1]

C4_Witness ==
    /\ middleware_ = << >>
    /\ outcome[1] = "returned"
    /\ "Auth" \in DOMAIN requests[1].headers

----------------------------------------------------------------------------
IsPrefix(a, b) == Len(a) <= Len(b) /\ a = SubSeq(b, 1, Len(a))

\* C5: every handle call starts with handler 0 on the fresh pair, and a second
\* call on the same chain with an equal Request repeats the first one event
\* for event, with the same outcome, Response and Request.
C5_Repeatable ==
    /\ L # << >> =>
          /\ L[1].ev = "start" /\ L[1].index = 0 /\ L[1].fn = Chain[1]
          /\ L[1].res = DefaultResponse /\ L[1].req = reqAt[1]
    /\ (N > 0 /\ outcome[1] # "none") => L # << >>
    /\ (prev.outcome # "none" /\ prev.reqAt = reqAt[1]) =>
          /\ IsPrefix(L, prev.log)
          /\ Over => /\ L = prev.log
                     /\ outcome[1] = prev.outcome
                     /\ responses[1] = prev.res
                     /\ requests[1] = prev.req

\* The second of two calls with a Request without "Auth", the first of which
\* authCheck short-circuited after setHeader.
C5_Witness ==
    /\ Chain = << "setHeader", "authCheck", "setStatus" >>
    /\ prev.outcome = "returned"
    /\ prev.reqAt = reqAt[1]
    /\ "Auth" \notin DOMAIN reqAt[1].headers
    /\ outcome[1] = "returned"
    /\ Len(L) > 2

----------------------------------------------------------------------------
\* C6: a new chain is empty and every use(f) appends: the registered sequence
\* is exactly the arguments of the use calls so far, in call order.
C6_PureAppend ==
    /\ middleware_ = uses
    /\ Len(middleware_) = Len(uses)

C6_Witness ==
    /\ uses = << "authCheck", "setStatus", "logger" >>
    /\ Len(middleware_) = 3

----------------------------------------------------------------------------
\* C7: every continuation call of handler i starts handler i + 1 (nothing at
\* the end of the chain), whichever call of that invocation it is, and a
\* handler is started by nothing but handle (handler 0, once) or a continuation
\* call of the handler right before it.
C7_RepeatedNext ==
    /\ \A p \in DOMAIN L :
          L[p].ev \in Calls =>
              IF L[p].index + 1 < N
              THEN /\ p < Len(L)
                   /\ L[p + 1].ev = "start"
                   /\ L[p + 1].index = L[p].index + 1
                   /\ L[p + 1].fn = Chain[L[p].index + 2]
              ELSE p < Len(L) => L[p + 1].ev # "start"
    /\ \A p \in DOMAIN L :
          L[p].ev = "start" =>
              IF p = 1 THEN L[p].index = 0
              ELSE L[p - 1].ev \in Calls /\ L[p - 1].index = L[p].index - 1

\* twice at index 1 has invoked its continuation twice in its one invocation:
\* handler 2 ran twice, handlers 0 and 1 once.
C7_Witness ==
    /\ Chain = << "setStatus", "twice", "logger" >>
    /\ outcome[1] = "returned"
    /\ Cardinality(Positions(Calls, 1)) = 2
    /\ Cardinality(Positions({"start"}, 2)) = 2
    /\ Cardinality(Positions({"start"}, 1)) = 1
    /\ Cardinality(Positions({"start"}, 0)) = 1

----------------------------------------------------------------------------
\* What has been written to a Response, a Request.
Written(r) ==
    (DOMAIN r.headers) \cup (IF r.status # DefaultStatus THEN {"status"} ELSE {})
        \cup (IF r.body # "" THEN {"body"} ELSE {})

\* C8: every invocation of a dispatch holds the very Request and Response the
\* caller passed to handle; the caller's other pair is never touched; what one
\* handler wrote is there for every later observation, and for the caller once
\* handle is over.
C8_SameInstances ==
    /\ \A k \in DOMAIN stack : stack[k].req = stack[k].d /\ stack[k].res = stack[k].d
    /\ requests[2] = DefaultRequest /\ responses[2] = DefaultResponse
    /\ \A p \in 1..(Len(L) - 1) :
          /\ Written(L[p].res) \subseteq Written(L[p + 1].res)
          /\ DOMAIN L[p].req.headers \subseteq DOMAIN L[p + 1].req.headers
    /\ (Over /\ L # << >>) =>
          /\ responses[1] = L[Len(L)].res
          /\ requests[1] = L[Len(L)].req

\* login wrote the Request, so that authCheck let the call through to
\* setStatus, whose write the caller sees.
C8_Witness ==
    /\ Chain = << "login", "authCheck", "setStatus" >>
    /\ "Auth" \notin DOMAIN reqAt[1].headers
    /\ outcome[1] = "returned"
    /\ "Auth" \in DOMAIN requests[1].headers
    /\ responses[1].status = 404

----------------------------------------------------------------------------
NonBranching == \A i \in DOMAIN Chain : NextCalls(Chain[i]) <= 1

C9_Bounded ==
    /\ Len(stack) <= N
    /\ NonBranching => Len(Starts) <= N

\* C9: a handle call that has started returns to its caller (normally or by an
\* exception), and when no handler invokes its continuation more than once, no
\* more than N handler invocations are made and no more than N are open.
C9_Completes ==
    /\ [] C9_Bounded
    /\ (outcome[1] = "running") ~> Over

\* N = 3 invocations are open at once.
C9_Witness ==
    /\ N = 3
    /\ NonBranching
    /\ Len(stack) = 3
    /\ Len(Starts) = 3

----------------------------------------------------------------------------
Max(S) == CHOOSE x \in S : \A y \in S : y <= x

\* The handler invocation that catches an exception raised by handler t: the
\* innermost upstream handler that invokes its continuation in a try block.
Handler(t) ==
    LET c == {i \in 0..(t - 1) : Catches(Chain[i + 1])} IN
    IF c = {} THEN -1 ELSE Max(c)

\* C10: an exception raised by handler t leaves every open invocation down to
\* the nearest handler that catches it, innermost first, none of them running
\* its code behind the continuation call; without such a handler it leaves
\* handle, nothing runs afterwards, and the Response is as the raising
\* handler left it.
C10_FaultPropagates ==
    /\ \A p \in DOMAIN L :
          L[p].ev = "throw" =>
              LET t == L[p].index
                  c == Handler(t)
                  m == t - c
              IN /\ p + m <= Len(L)
                 /\ \A j \in 1..m : /\ L[p + j].ev = "abort"
                                    /\ L[p + j].index = t - j + 1
                                    /\ L[p + j].res = L[p].res
                 /\ c = -1 => /\ Len(L) = p + m
                              /\ outcome[1] = "faulted"
                              /\ stack = << >>
                              /\ responses[1] = L[p].res
                 /\ (c >= 0 /\ Len(L) = p + m) =>
                        /\ outcome[1] = "running"
                        /\ Len(stack) = c + 1
                 /\ (c >= 0 /\ Len(L) > p + m) =>
                        /\ L[p + m + 1].ev = "saw"
                        /\ L[p + m + 1].index = c
    /\ outcome[1] = "faulted" =>
          \E p \in DOMAIN L : L[p].ev = "throw" /\ Len(L) = p + L[p].index + 1

\* thrower faulted below setHeader and logger: logger observed nothing, and
\* the Response holds what setHeader and thrower wrote.
C10_Witness ==
    /\ Chain = << "setHeader", "logger", "thrower" >>
    /\ outcome[1] = "faulted"
    /\ Positions({"saw"}, 1) = {}
    /\ Positions({"end"}, 0) = {}
    /\ responses[1].headers = Put(EmptyMap, "X", "1")
    /\ responses[1].body = "partial"

----------------------------------------------------------------------------
\* The positions of seq that hold handler fn.
PositionsOf(seq, fn) == {i \in DOMAIN seq : seq[i] = fn}

\* C14: a handler registered several times is stored once per registration,
\* and a dispatch in which every handler invokes its continuation once has run
\* it once at each of the positions it stands at, and nowhere else.
C14_Duplicates ==
    /\ \A fn \in Handlers :
          Cardinality(PositionsOf(middleware_, fn)) = Cardinality(PositionsOf(uses, fn))
    /\ (outcome[1] = "returned" /\ \A i \in DOMAIN Chain : ContinuesOnce(Chain[i])) =>
          \A fn \in Handlers :
              LET ran == {p \in DOMAIN L : L[p].ev = "start" /\ L[p].fn = fn} IN
              /\ {L[p].index + 1 : p \in ran} = PositionsOf(Chain, fn)
              /\ Cardinality(ran) = Cardinality(PositionsOf(Chain, fn))

\* setStatus, registered first and third, ran at indices 0 and 2.
C14_Witness ==
    /\ uses = << "setStatus", "logger", "setStatus" >>
    /\ Chain = middleware_
    /\ outcome[1] = "returned"
    /\ {L[p].index : p \in {q \in DOMAIN L : L[q].ev = "start" /\ L[q].fn = "setStatus"}} = {0, 2}

----------------------------------------------------------------------------
\* C15: the open invocations of a dispatch are those of the handlers
\* 0, 1, ..., d in this order, d < N, each the handler registered at its
\* index, and each but the innermost stands right behind a continuation call
\* it has made.
C15_Nesting ==
    /\ Len(stack) <= N
    /\ \A k \in DOMAIN stack : stack[k].index = k - 1 /\ stack[k].fn = Chain[k]
    /\ \A k \in 1..(Len(stack) - 1) :
          /\ stack[k].pc > 1
          /\ Body(stack[k].fn)[stack[k].pc - 1].op \in Calls

\* Three invocations are open for the third time, in the second continuation
\* call of a handler that invokes its continuation twice.
C15_Witness ==
    /\ Chain = << "twice", "twice", "logger" >>
    /\ Len(stack) = 3
    /\ stack[1].pc = 3
    /\ Cardinality(Positions({"start"}, 2)) = 3

----------------------------------------------------------------------------
\* C12: every cursor given to execute is in 0..N; a handler is invoked only
\* with a cursor below N, which is 0 for the first and otherwise the cursor of
\* the continuation call that invokes it; every continuation call of the
\* handler at index i gives execute the cursor i + 1; and a cursor of N
\* invokes nothing.
C12_CursorMachine ==
    /\ \A k \in DOMAIN stack : stack[k].index \in 0..(N - 1)
    /\ \A p \in DOMAIN L :
          /\ L[p].cursor \in 0..N
          /\ L[p].ev \in Calls =>
                /\ L[p].cursor = L[p].index + 1
                /\ (L[p].cursor = N /\ p < Len(L)) => L[p + 1].ev # "start"
          /\ L[p].ev = "start" =>
                /\ L[p].index = L[p].cursor
                /\ L[p].cursor < N
                /\ IF p = 1 THEN L[p].cursor = 0
                   ELSE L[p - 1].ev \in Calls /\ L[p - 1].cursor = L[p].cursor
          /\ L[p].ev \notin Calls => L[p].cursor = L[p].index

\* twice at index 0 has invoked its continuation twice, each time with cursor
\* 1, and the continuation of the last handler has been invoked with cursor N.
C12_Witness ==
    /\ Chain = << "twice", "logger" >>
    /\ outcome[1] = "returned"
    /\ Cardinality({p \in Positions(Calls, 0) : L[p].cursor = 1}) = 2
    /\ Cardinality({p \in Positions(Calls, 1) : L[p].cursor = N}) = 2

----------------------------------------------------------------------------
\* The handler a use statement of handler fn registers.
Added(fn) == Body(fn)[CHOOSE p \in DOMAIN Body(fn) : Body(fn)[p].op = "use"].key

\* The handlers registered by the first n events of the dispatch, in order.
AddedIn(n) ==
    LET u == SelectSeq(SubSeq(L, 1, n), LAMBDA e : e.ev = "use") IN
    [i \in DOMAIN u |-> Added(u[i].fn)]

\* C11 as claimed: while a handle call is in flight the registered sequence is
\* the one the call started with.
C11_Immutable == outcome[1] = "running" => middleware_ = Chain

\* C11, amended: the chain is created empty and has one entry per use call;
\* while a handle call is in flight the registered sequence is the one the
\* call started with, followed by the handlers its own handlers have
\* registered since, in call order.
C11_GrowsByAppend ==
    /\ Len(middleware_) = Len(uses)
    /\ outcome[1] = "running" => middleware_ = Chain \o AddedIn(Len(L))

\* A handler has registered another one during the dispatch.
C11_Witness ==
    /\ outcome[1] = "running"
    /\ Chain = << "setHeader", "registrar" >>
    /\ middleware_ = << "setHeader", "registrar", "setStatus" >>

----------------------------------------------------------------------------
\* C16: a continuation call with cursor c invokes the handler at c whenever c
\* is below the length the registry has at that moment, handlers registered
\* during the dispatch included, and nothing otherwise.
C16_LiveLength ==
    /\ outcome[1] = "running" => middleware_ = Chain \o AddedIn(Len(L))
    /\ \A p \in DOMAIN L :
          L[p].ev \in Calls =>
              LET reg == Chain \o AddedIn(p)
                  c == L[p].cursor
              IN IF c < Len(reg)
                 THEN /\ p < Len(L)
                      /\ L[p + 1].ev = "start"
                      /\ L[p + 1].index = c
                      /\ L[p + 1].fn = reg[c + 1]
                 ELSE p < Len(L) => L[p + 1].ev # "start"

\* The setStatus handler that registrar appended during the dispatch has run
\* in that dispatch, at index N.
C16_Witness ==
    /\ Chain = << "logger", "registrar" >>
    /\ outcome[1] = "returned"
    /\ \E p \in DOMAIN L : L[p].ev = "start" /\ L[p].index = N /\ L[p].fn = "setStatus"
    /\ responses[1].status = 404

----------------------------------------------------------------------------
\* The invocations on the call stack that belong to the dispatch on pair d.
FramesOf(d) == {k \in DOMAIN stack : stack[k].d = d}

\* C13: a dispatch a handler starts on a pair of its own begins at cursor 0
\* with that pair, runs through the chain in order above the suspended outer
\* invocations, and is over before the outer dispatch does anything more; the
\* outer handler then resumes with its index, its Request and its Response as
\* they were, and its continuation still enters index + 1.
C13_Reentrant ==
    /\ \A i \in FramesOf(1), j \in FramesOf(2) : i < j
    /\ \A j \in FramesOf(2) :
          /\ stack[j].index = j - 1 - Cardinality(FramesOf(1))
          /\ stack[j].req = 2 /\ stack[j].res = 2
    /\ \A i \in FramesOf(1) : stack[i].index = i - 1 /\ stack[i].req = 1 /\ stack[i].res = 1
    /\ FramesOf(2) # {} <=> outcome[2] = "running"
    /\ outcome[2] = "running" =>
          /\ outcome[1] = "running"
          /\ L[Len(L)].ev = "handle"
          /\ chainAt[2] = middleware_
    /\ outcome[2] # "none" =>
          /\ "Inner" \in DOMAIN reqAt[2].headers
          /\ chainAt[2] # << >>
          /\ log[2] # << >>
          /\ log[2][1] = [ev |-> "start", index |-> 0, fn |-> chainAt[2][1], cursor |-> 0,
                          req |-> reqAt[2], res |-> DefaultResponse]
    /\ \A p \in DOMAIN log[2] :
          log[2][p].ev \in Calls =>
              IF log[2][p].cursor < Len(chainAt[2])
              THEN /\ p < Len(log[2])
                   /\ log[2][p + 1].ev = "start"
                   /\ log[2][p + 1].index = log[2][p].cursor
                   /\ log[2][p + 1].fn = chainAt[2][log[2][p].cursor + 1]
              ELSE p < Len(log[2]) => log[2][p + 1].ev # "start"
    /\ \A p \in DOMAIN L :
          L[p].ev = "handle" /\ p < Len(L) =>
              /\ L[p + 1].ev \in {"next", "abort"}
              /\ L[p + 1].index = L[p].index
              /\ L[p + 1].fn = L[p].fn
              /\ L[p + 1].req = L[p].req
              /\ L[p + 1].res = L[p].res
              /\ L[p + 1].ev = "next" =>
                    /\ L[p + 1].cursor = L[p].index + 1
                    /\ L[p].index + 1 < N =>
                          /\ p + 1 < Len(L)
                          /\ L[p + 2].ev = "start"
                          /\ L[p + 2].index = L[p].index + 1

\* The second handler has dispatched a Request of its own through the whole
\* chain and both dispatches have returned.
C13_Witness ==
    /\ Chain = << "logger", "redispatch", "setStatus" >>
    /\ outcome[1] = "returned"
    /\ outcome[2] = "returned"
    /\ \E p \in DOMAIN L : L[p].ev = "handle" /\ L[p].index = 1 /\ L[p + 1].ev = "next"
    /\ \E p \in DOMAIN log[2] : log[2][p].ev = "start" /\ log[2][p].index = 2
    /\ responses[1].status = 404
    /\ responses[2].status = 404

=============================================================================
